---- MODULE Spec2Model ----
(***************************************************************************)
(* Model of the production planner of satisfactory-resource-tracer:        *)
(*   src/model/codex.py          Codex (the recipe catalog)                *)
(*   src/model/recipe.py         Recipe, Ingredient                        *)
(*   src/model/assembly_line.py  Node, the selection policies, Factory     *)
(*                                                                         *)
(* Python floats are modelled as exact rationals <<n, d>> in lowest terms  *)
(* with d > 0: every equality between quantities below is an equality of   *)
(* the real numbers the floats stand for, not of their IEEE-754 roundings. *)
(***************************************************************************)
EXTENDS Integers, Sequences, FiniteSets, TLC

\* ------------------------------------------------------------------ bounds

\* Largest whole target rate a caller passes to scale (besides current rates).
MaxTarget == 2
\* Largest finite max_depth a caller passes to build (-1, the default, is
\* always among the choices).
MaxDepthArg == 2
\* Most Node objects a tree may hold: build adds no child beyond it. No build
\* of the catalogs below comes near it (NodesFit); it keeps the state space
\* finite should an expansion never stop.
MaxNodes == 7

\* ------------------------------------------------------- rational numbers

RECURSIVE GCD(_, _)
GCD(a, b) == IF b = 0 THEN a ELSE GCD(b, a % b)

Abs(x) == IF x < 0 THEN -x ELSE x

\* n/d in lowest terms, d # 0.
Rat(n, d) ==
    LET s == IF d < 0 THEN -1 ELSE 1
        g == GCD(Abs(n), Abs(d))
    IN  <<(s * n) \div g, (s * d) \div g>>

\* float * float
RMul(a, b) == Rat(a[1] * b[1], a[2] * b[2])

\* float / float (the divisor is a recipe rate, strictly positive)
RDiv(a, b) == Rat(a[1] * b[2], a[2] * b[1])

One == <<1, 1>>

\* ----------------------------------------------------- recipe.py: Recipe

Ing(n, q) == [name |-> n, quantity |-> q]

Rcp(n, m, ins, outs) == [name |-> n, machine |-> m, inputs |-> ins, outputs |-> outs]

\* Recipe.product
product(recipe) == recipe.outputs[1]

\* ------------------------------------------------------------- catalogs

\* The end-to-end example of the specification, plus a recipe that makes
\* Bar only as a byproduct and a Packager recipe for Bar.
WidgetCatalog ==
    << Rcp("Smelt Ore", "Smelter", <<Ing("Ore", 60)>>, <<Ing("Bar", 30)>>),
       Rcp("Make Widget", "Assembler", <<Ing("Bar", 20)>>, <<Ing("Widget", 10)>>),
       Rcp("Slag Bar", "Refinery", <<Ing("Ore", 10)>>, <<Ing("Slag", 5), Ing("Bar", 1)>>),
       Rcp("Unpack Bar", "Packager", <<Ing("Crate", 1)>>, <<Ing("Bar", 40)>>) >>

\* Two branches (Plate, and Bar directly) need the same intermediate Bar,
\* which has two alternative producers.
GadgetCatalog ==
    << Rcp("Make Gadget", "Assembler", <<Ing("Plate", 2), Ing("Bar", 3)>>, <<Ing("Gadget", 1)>>),
       Rcp("Press Plate", "Constructor", <<Ing("Bar", 4)>>, <<Ing("Plate", 2)>>),
       Rcp("Cast Bar", "Foundry", <<Ing("Ore", 2), Ing("Coal", 1)>>, <<Ing("Bar", 5)>>),
       Rcp("Smelt Bar", "Smelter", <<Ing("Ore", 6)>>, <<Ing("Bar", 3)>>),
       Rcp("Mine Ore", "Miner", <<>>, <<Ing("Ore", 6)>>) >>

\* A cyclic recipe graph: A needs B, B needs A and B itself.
CyclicCatalog ==
    << Rcp("Make A", "Blender", <<Ing("B", 2)>>, <<Ing("A", 1)>>),
       Rcp("Make B", "Blender", <<Ing("A", 1), Ing("B", 1)>>, <<Ing("B", 3)>>) >>

Catalogs == {WidgetCatalog, GadgetCatalog, CyclicCatalog}

\* names given to partial(preferred_names, names=...)
recipe_names == {"Smelt Bar", "Make B"}

\* ------------------------------------------------------- codex.py: Codex

\* An optional argument: <<>> is None, <<v>> is the value v.
None == <<>>

Some(v) == <<v>>

\* components, had it taken every output of the recipe for a product
components_all_outputs(recipe, by) ==
    (IF by \in {"any", "ingredient"} THEN recipe.inputs ELSE <<>>)
        \o (IF by \in {"any", "product"} THEN recipe.outputs ELSE <<>>)

\* recipe.inputs and/or [recipe.product], as the role `by` asks
components(recipe, by) ==
    (IF by \in {"any", "ingredient"} THEN recipe.inputs ELSE <<>>)
        \o (IF by \in {"any", "product"} THEN <<product(recipe)>> ELSE <<>>)

\* if exclude_machines is None: exclude_machines = {"Packager"}
DefaultExclude(exclude_machines) ==
    IF exclude_machines = None THEN {"Packager"} ELSE exclude_machines[1]

\* whether the catalog loop appends rs[i] to the results
Involves(rs, i, part, by, exclude_machines) ==
    /\ rs[i].machine \notin DefaultExclude(exclude_machines)
    /\ \E k \in DOMAIN components(rs[i], by) : components(rs[i], by)[k].name = part

\* Codex.get_recipes_by_part: the catalog positions of the matching recipes,
\* in the order of the loop over self.recipes.
get_recipes_by_part(rs, part, by, exclude_machines) ==
    SelectSeq([i \in 1..Len(rs) |-> i],
              LAMBDA i : Involves(rs, i, part, by, exclude_machines))

\* ---------------------------------- assembly_line.py: selection policies

\* the first position at which the sequence of keys is the least
FirstLeast(keys) ==
    CHOOSE i \in DOMAIN keys :
        /\ \A j \in DOMAIN keys : keys[j] >= keys[i]
        /\ \A j \in 1..(i - 1) : keys[j] > keys[i]

\* min(options, key=len(recipe.inputs)): the first of the least
simplest_recipe(rs, options) ==
    options[FirstLeast([k \in DOMAIN options |-> Len(rs[options[k]].inputs)])]

\* max(options, key=recipe.product.quantity): the first of the greatest
max_output(rs, options) ==
    options[FirstLeast([k \in DOMAIN options |-> 0 - product(rs[options[k]]).quantity])]

preferred_names(rs, options, names) ==
    LET new_options == SelectSeq(options, LAMBDA r : rs[r].name \in names)
    IN  max_output(rs, IF new_options # <<>> THEN new_options ELSE options)

\* the policy build applies: None is replaced by simplest_recipe
fitness(fitness_func, rs, options) ==
    CASE fitness_func = "None" -> simplest_recipe(rs, options)
      [] fitness_func = "max_output" -> max_output(rs, options)
      [] fitness_func = "preferred_names" -> preferred_names(rs, options, recipe_names)

\* ------------------------------------------------ assembly_line.py: Node

\* Node(recipe, quantity, parent, children): recipe is a catalog position,
\* parent a node id (0 is None), children a sequence of node ids.
Node(recipe, quantity, parent, children) ==
    [recipe |-> recipe, quantity |-> quantity, parent |-> parent, children |-> children]

\* ------------------------------------- assembly_line.py: Factory, search

\* position of the first ingredient of `ingredients` named `name`, 0 if none
\* (the for ... if ingredient.name == product ... break loops)
FirstNamed(ingredients, name) ==
    IF \E k \in DOMAIN ingredients : ingredients[k].name = name
    THEN CHOOSE k \in DOMAIN ingredients :
            /\ ingredients[k].name = name
            /\ \A j \in 1..(k - 1) : ingredients[j].name # name
    ELSE 0

RECURSIVE find_node_by_product(_, _, _, _)
RECURSIVE FindInChildren(_, _, _, _, _)
\* Factory._find_node_by_product: pre-order, the first match; 0 is None
find_node_by_product(rs, ns, node, part) ==
    IF product(rs[ns[node].recipe]).name = part THEN node
    ELSE FindInChildren(rs, ns, node, 1, part)

\* the loop over node.children of _find_node_by_product, from child k on
FindInChildren(rs, ns, node, k, part) ==
    IF k > Len(ns[node].children) THEN 0
    ELSE LET result == find_node_by_product(rs, ns, ns[node].children[k], part)
         IN  IF result # 0 THEN result
             ELSE FindInChildren(rs, ns, node, k + 1, part)

\* -------------------------------------------------- Factory: scaling

\* The outcome of a (partial) run of scale: the nodes as the run left them
\* and whether it returned (ok) or raised.
RECURSIVE scale_node_by_product(_, _, _, _)
RECURSIVE ScaleChildren(_, _, _, _, _)
RECURSIVE scale_node_by_ingredient(_, _, _, _)

RECURSIVE scale_node_by_product_first_input(_, _, _, _)
\* _scale_node_by_product, had it taken match_node's first input whatever its name
scale_node_by_product_first_input(rs, ns, node, match_node) ==
    LET prod == product(rs[ns[node].recipe])
        ins == rs[ns[match_node].recipe].inputs
    IN  IF ins = <<>> THEN [ns |-> ns, ok |-> FALSE]
        ELSE LET target_quantity == RMul(Rat(ins[1].quantity, 1), ns[match_node].quantity)
                 ns1 == [ns EXCEPT ![node].quantity =
                             RDiv(target_quantity, Rat(prod.quantity, 1))]
             IN  ScaleChildren(rs, ns1, node, 1, 0)

\* Factory._scale_node_by_product
scale_node_by_product(rs, ns, node, match_node) ==
    LET prod == product(rs[ns[node].recipe])
        ins == rs[ns[match_node].recipe].inputs
        k == FirstNamed(ins, prod.name)
    IN  IF k = 0 THEN [ns |-> ns, ok |-> FALSE]
        ELSE LET target_quantity == RMul(Rat(ins[k].quantity, 1), ns[match_node].quantity)
                 ns1 == [ns EXCEPT ![node].quantity =
                             RDiv(target_quantity, Rat(prod.quantity, 1))]
             IN  ScaleChildren(rs, ns1, node, 1, 0)

\* for child in node.children: [skip match_node;] _scale_node_by_product(child, node)
\* from child k on; an exception ends the loop
ScaleChildren(rs, ns, node, k, skip) ==
    IF k > Len(ns[node].children) THEN [ns |-> ns, ok |-> TRUE]
    ELSE LET child == ns[node].children[k]
         IN  IF child = skip THEN ScaleChildren(rs, ns, node, k + 1, skip)
             ELSE LET r == scale_node_by_product(rs, ns, child, node)
                  IN  IF r.ok THEN ScaleChildren(rs, r.ns, node, k + 1, skip) ELSE r

RECURSIVE scale_node_by_ingredient_stale_siblings(_, _, _, _)
\* _scale_node_by_ingredient, had it left the other children of node as they were
scale_node_by_ingredient_stale_siblings(rs, ns, node, match_node) ==
    LET prod == product(rs[ns[match_node].recipe])
        target_quantity == RMul(Rat(prod.quantity, 1), ns[match_node].quantity)
        ins == rs[ns[node].recipe].inputs
        k == FirstNamed(ins, prod.name)
    IN  IF k = 0 THEN [ns |-> ns, ok |-> FALSE]
        ELSE LET ns1 == [ns EXCEPT ![node].quantity =
                             RDiv(target_quantity, Rat(ins[k].quantity, 1))]
             IN  IF ns[node].parent = 0 THEN [ns |-> ns1, ok |-> TRUE]
                 ELSE scale_node_by_ingredient_stale_siblings(rs, ns1, ns[node].parent, node)

\* Factory._scale_node_by_ingredient
scale_node_by_ingredient(rs, ns, node, match_node) ==
    LET prod == product(rs[ns[match_node].recipe])
        target_quantity == RMul(Rat(prod.quantity, 1), ns[match_node].quantity)
        ins == rs[ns[node].recipe].inputs
        k == FirstNamed(ins, prod.name)
    IN  IF k = 0 THEN [ns |-> ns, ok |-> FALSE]
        ELSE LET ns1 == [ns EXCEPT ![node].quantity =
                             RDiv(target_quantity, Rat(ins[k].quantity, 1))]
                 r == ScaleChildren(rs, ns1, node, 1, match_node)
             IN  IF ~r.ok \/ ns[node].parent = 0 THEN r
                 ELSE scale_node_by_ingredient(rs, r.ns, ns[node].parent, node)

\* scale, had it taken the target rate for the anchor's quantity
scale_undivided(rs, ns, root, part_name, target_quantity) ==
    LET node == find_node_by_product(rs, ns, root, part_name)
    IN  IF node = 0 THEN [ns |-> ns, ok |-> FALSE]
        ELSE LET ns1 == [ns EXCEPT ![node].quantity = target_quantity]
                 r == ScaleChildren(rs, ns1, node, 1, 0)
             IN  IF ~r.ok \/ ns[node].parent = 0 THEN r
                 ELSE scale_node_by_ingredient(rs, r.ns, ns[node].parent, node)

\* Factory.scale on the tree rooted at `root`; find_node returning None makes
\* the first statement raise before anything is written
scale(rs, ns, root, part_name, target_quantity) ==
    LET node == find_node_by_product(rs, ns, root, part_name)
    IN  IF node = 0 THEN [ns |-> ns, ok |-> FALSE]
        ELSE LET ns1 == [ns EXCEPT ![node].quantity =
                             RDiv(target_quantity,
                                  Rat(product(rs[ns[node].recipe]).quantity, 1))]
                 r == ScaleChildren(rs, ns1, node, 1, 0)
             IN  IF ~r.ok \/ ns[node].parent = 0 THEN r
                 ELSE scale_node_by_ingredient(rs, r.ns, ns[node].parent, node)

\* ------------------------------------------------------------------ state

VARIABLES
    recipes,            \* Codex.recipes: the catalog, a sequence of recipes
    nodes,              \* the Node objects of the planner's tree, by id
    existing_products,  \* the set object the caller holds and may pass to build
    pc,                 \* "idle", or "build" while a build call is running
    call,               \* the arguments of the build call running or just returned
    products,           \* which set object build's `products` names
    fresh,              \* the set() build creates when it is given no seed
    stack,              \* the _build_factory frames: node, depth, next input
    built,              \* whether a build call has returned on this planner
    scaled,             \* whether the tree is as a scale call that returned left it
    last,               \* the call running or, when idle, the last one, and how it ended
    before_build,       \* the tree that call found, when it repeats the call before it
    results             \* what the last get_recipes_by_part query returned

vars == <<recipes, nodes, existing_products, pc, call, products, fresh, stack,
          built, scaled, last, before_build, results>>

\* Factory.map: the root Node (ids are given in creation order)
map == 1

\* every good named anywhere in the catalog
Goods(rs) ==
    UNION {{rs[i].inputs[k].name : k \in DOMAIN rs[i].inputs}
             \cup {rs[i].outputs[k].name : k \in DOMAIN rs[i].outputs} : i \in DOMAIN rs}

\* node.quantity * node.recipe.product.quantity
Rate(rs, ns, n) == RMul(ns[n].quantity, Rat(product(rs[ns[n].recipe]).quantity, 1))

\* a tree without its quantities: topology and the recipe at every node
Shape(ns) ==
    [n \in DOMAIN ns |->
        [recipe |-> ns[n].recipe, parent |-> ns[n].parent, children |-> ns[n].children]]

NoCall == [op |-> "none"]

\* the recipes a caller plans for: codex.get_recipe(name) of a final product,
\* one that no recipe of the catalog consumes, or of any recipe of a catalog
\* in which every product is consumed
Targets(rs) ==
    LET final == {t \in DOMAIN rs :
                    get_recipes_by_part(rs, product(rs[t]).name, "ingredient", Some({})) = <<>>}
    IN  IF final # {} THEN final ELSE DOMAIN rs

\* Factory.__init__: a planner over a catalog, rooted at a fresh Node(target)
\* or adopting a Node the caller assembled by hand (here: a root running
\* q copies of its recipe, with at most one child linked to it).
Init ==
    /\ recipes \in Catalogs
    /\ \E target \in Targets(recipes) :
          \/ nodes = <<Node(target, One, 0, <<>>)>>
          \/ \E child \in DOMAIN recipes :
                nodes = <<Node(target, Rat(2, 1), 0, <<2>>), Node(child, One, map, <<>>)>>
    /\ existing_products \in {{}, {"Bar"}}
    /\ pc = "idle"
    /\ call = NoCall
    /\ products = "fresh"
    /\ fresh = {}
    /\ stack = <<>>
    /\ built = FALSE
    /\ scaled = FALSE
    /\ last = NoCall
    /\ before_build = <<>>
    /\ results = <<>>

\* ------------------------------------------------------ Factory.build

\* the contents of the set `products` names
Products == IF products = "existing" THEN existing_products ELSE fresh

Top == stack[Len(stack)]

Pop == SubSeq(stack, 1, Len(stack) - 1)

\* the depth test, had it been depth < 0
DepthExhausted_negative(depth) == depth < 0

\* if depth == 0: return
DepthExhausted(depth) == depth = 0

\* the membership test, had it been left out
AlreadyExpanded_never(name, seen) == FALSE

\* if node.recipe.product.name in products: return
AlreadyExpanded(name, seen) == name \in seen

\* the root as build leaves it before expanding: self.map.children = []
Pruned(root) == [root EXCEPT !.children = <<>>]

\* products = existing_products or set(): the caller's own set object when it
\* is given and not empty, a new empty set otherwise
ProductsObject(seed, existing) ==
    IF seed = "caller" /\ existing # {} THEN "existing" ELSE "fresh"

\* build(fitness_func, exclude_machines, existing_products, max_depth) up to
\* the call of _build_factory(self.map, ..., depth=max_depth). The Nodes the
\* old children referred to are garbage and leave the model.
BuildCall(fitness_func, exclude_machines, seed, max_depth) ==
    LET args == [op |-> "build", fitness_func |-> fitness_func,
                 exclude_machines |-> exclude_machines, seed |-> seed,
                 max_depth |-> max_depth]
    IN  /\ pc = "idle"
        /\ pc' = "build"
        /\ call' = args
        /\ before_build' = IF built /\ call = args THEN Shape(nodes) ELSE <<>>
        /\ products' = ProductsObject(seed, existing_products)
        /\ fresh' = {}
        /\ nodes' = <<Pruned(nodes[map])>>
        /\ stack' = <<[node |-> map, depth |-> max_depth, i |-> 0]>>
        /\ last' = [op |-> "build"]
        /\ scaled' = FALSE
        /\ UNCHANGED <<recipes, existing_products, built, results>>

\* _build_factory entered with depth == 0: return
BuildDepthReturn ==
    /\ pc = "build" /\ stack # <<>> /\ Top.i = 0
    /\ DepthExhausted(Top.depth)
    /\ stack' = Pop
    /\ UNCHANGED <<recipes, nodes, existing_products, pc, call, products, fresh,
                   built, scaled, last, before_build, results>>

\* _build_factory entered with the node's product already in products: return
BuildSeenReturn ==
    /\ pc = "build" /\ stack # <<>> /\ Top.i = 0
    /\ ~DepthExhausted(Top.depth)
    /\ AlreadyExpanded(product(recipes[nodes[Top.node].recipe]).name, Products)
    /\ stack' = Pop
    /\ UNCHANGED <<recipes, nodes, existing_products, pc, call, products, fresh,
                   built, scaled, last, before_build, results>>

\* products.add(node.recipe.product.name), then on to the loop over the inputs
BuildExpand ==
    /\ pc = "build" /\ stack # <<>> /\ Top.i = 0
    /\ ~DepthExhausted(Top.depth)
    /\ LET name == product(recipes[nodes[Top.node].recipe]).name
       IN  /\ ~AlreadyExpanded(name, Products)
           /\ IF products = "existing"
              THEN existing_products' = existing_products \cup {name} /\ fresh' = fresh
              ELSE fresh' = fresh \cup {name} /\ existing_products' = existing_products
    /\ stack' = [stack EXCEPT ![Len(stack)].i = 1]
    /\ UNCHANGED <<recipes, nodes, pc, call, products, built, scaled, last,
                   before_build, results>>

\* the producers build may choose among for the input it is looking at
Options == get_recipes_by_part(recipes, recipes[nodes[Top.node].recipe].inputs[Top.i].name,
                               "product", call.exclude_machines)

InLoop ==
    /\ pc = "build" /\ stack # <<>> /\ Top.i >= 1
    /\ Top.i <= Len(recipes[nodes[Top.node].recipe].inputs)

\* if not options: continue
BuildSkipInput ==
    /\ InLoop
    /\ Options = <<>>
    /\ stack' = [stack EXCEPT ![Len(stack)].i = Top.i + 1]
    /\ UNCHANGED <<recipes, nodes, existing_products, pc, call, products, fresh,
                   built, scaled, last, before_build, results>>

\* new_node = Node(fitness_func(options), parent=node);
\* node.children.append(new_node); self._build_factory(new_node, ..., depth - 1)
BuildAddChild ==
    /\ InLoop
    /\ Options # <<>>
    /\ Len(nodes) < MaxNodes
    /\ LET new_node == Len(nodes) + 1
       IN  /\ nodes' = Append([nodes EXCEPT ![Top.node].children = Append(@, new_node)],
                              Node(fitness(call.fitness_func, recipes, Options),
                                   One, Top.node, <<>>))
           /\ stack' = Append([stack EXCEPT ![Len(stack)].i = Top.i + 1],
                              [node |-> new_node, depth |-> Top.depth - 1, i |-> 0])
    /\ UNCHANGED <<recipes, existing_products, pc, call, products, fresh,
                   built, scaled, last, before_build, results>>

\* the loop over the inputs is over: _build_factory returns
BuildLoopDone ==
    /\ pc = "build" /\ stack # <<>> /\ Top.i >= 1
    /\ Top.i > Len(recipes[nodes[Top.node].recipe].inputs)
    /\ stack' = Pop
    /\ UNCHANGED <<recipes, nodes, existing_products, pc, call, products, fresh,
                   built, scaled, last, before_build, results>>

\* the outermost _build_factory has returned: build returns
BuildReturn ==
    /\ pc = "build" /\ stack = <<>>
    /\ pc' = "idle"
    /\ built' = TRUE
    /\ UNCHANGED <<recipes, nodes, existing_products, call, products, fresh, stack,
                   scaled, last, before_build, results>>

BuildStep ==
    \/ BuildDepthReturn
    \/ BuildSeenReturn
    \/ BuildExpand
    \/ BuildSkipInput
    \/ BuildAddChild
    \/ BuildLoopDone
    \/ BuildReturn

\* ------------------------------------------------------ Factory.scale

\* the rates a caller asks for: small whole rates, and the rate the first
\* node making the good runs at now
TargetChoices(part) ==
    {Rat(k, 1) : k \in 1..MaxTarget}
        \cup (LET node == find_node_by_product(recipes, nodes, map, part)
              IN  IF node = 0 THEN {} ELSE {Rate(recipes, nodes, node)})

\* scale(part_name, target_quantity), returning or raising. `last` keeps
\* whether the call returned, its anchor (0 when find_node found none) and
\* whether it re-anchored a scaled tree: asked, of a tree left by a scale
\* call that returned, for the rate the anchor already ran at.
Scale(part_name, target_quantity) ==
    LET r == scale(recipes, nodes, map, part_name, target_quantity)
        node == find_node_by_product(recipes, nodes, map, part_name)
    IN  /\ pc = "idle"
        /\ nodes' = r.ns
        /\ scaled' = (r.ok \/ (scaled /\ r.ns = nodes))
        /\ last' = [op |-> "scale", ok |-> r.ok, anchor |-> node,
                    reanchor |-> /\ scaled
                                 /\ node # 0
                                 /\ target_quantity = Rate(recipes, nodes, node)]
        /\ call' = NoCall
        /\ before_build' = <<>>
        /\ UNCHANGED <<recipes, existing_products, pc, products, fresh, stack,
                       built, results>>

Next ==
    \/ \E fitness_func \in {"None", "max_output", "preferred_names"},
          exclude_machines \in {None, Some({})},
          seed \in {"None", "caller"},
          max_depth \in (0 - 1)..MaxDepthArg :
            BuildCall(fitness_func, exclude_machines, seed, max_depth)
    \/ BuildStep
    \/ \E part_name \in Goods(recipes) :
          \E target_quantity \in TargetChoices(part_name) :
            Scale(part_name, target_quantity)

Spec == Init /\ [][Next]_vars

\* ------------------------------------------ build alone, run to the end

\* build calls only, one after the other
NextBuild ==
    \/ \E fitness_func \in {"None", "max_output", "preferred_names"},
          exclude_machines \in {None, Some({})},
          seed \in {"None", "caller"},
          max_depth \in (0 - 1)..MaxDepthArg :
            BuildCall(fitness_func, exclude_machines, seed, max_depth)
    \/ BuildStep

\* Python runs a call to its end: a build call that can take a step takes it.
FairBuild == Init /\ [][NextBuild]_vars /\ WF_vars(BuildStep)

\* --------------------------------------------- the catalog queried alone

\* results = get_recipes_by_part(part, by, exclude_machines), with its arguments
Lookup(part, by, exclude_machines) ==
    /\ results' = [part |-> part, by |-> by, exclude_machines |-> exclude_machines,
                   found |-> get_recipes_by_part(recipes, part, by, exclude_machines)]
    /\ UNCHANGED <<recipes, nodes, existing_products, pc, call, products, fresh, stack,
                   built, scaled, last, before_build>>

NextCodex ==
    \E part \in Goods(recipes) \cup {"Screw"},
       by \in {"any", "ingredient", "product"},
       exclude_machines \in {None, Some({}), Some({"Smelter", "Refinery"})} :
        Lookup(part, by, exclude_machines)

SpecCodex == Init /\ [][NextCodex]_vars

\* ------------------------------------------------------ tree vocabulary

RECURSIVE Depth(_, _)
\* how far below the root node n hangs (the root is at depth 0)
Depth(ns, n) == IF ns[n].parent = 0 THEN 0 ELSE 1 + Depth(ns, ns[n].parent)

ProductName(n) == product(recipes[nodes[n].recipe]).name

\* node n produces its primary product at the rate its parent consumes it
Balanced(n) ==
    LET p == nodes[n].parent
        ins == recipes[nodes[p].recipe].inputs
    IN  \E k \in DOMAIN ins :
            /\ ins[k].name = ProductName(n)
            /\ RMul(nodes[n].quantity, Rat(product(recipes[nodes[n].recipe]).quantity, 1))
                 = RMul(nodes[p].quantity, Rat(ins[k].quantity, 1))

Consistent == \A n \in DOMAIN nodes : nodes[n].parent # 0 => Balanced(n)

Returned(op) == pc = "idle" /\ last.op = op

\* the build call has never been stopped by the bound on the tree's size
NodesFit == (InLoop /\ Options # <<>>) => Len(nodes) < MaxNodes - 1

\* ----------------------------------------------------------------- claims

\* C1: after a scale call has returned on a tree produced by build, every
\* non-root node makes its primary product at exactly the rate at which its
\* parent's recipe consumes the good of that name: child.quantity *
\* child.recipe.outputs[0].quantity = parent.quantity * (the quantity of the
\* parent's input named like the child's product). This holds for every node
\* of the tree and after any sequence of scale calls (exact arithmetic).
C1_ScaledTreeConsistent == (built /\ scaled) => Consistent

\* C1's case: a scale call anchored at an inner node that has a subtree
\* below it, an ancestor above it and a sibling beside it has returned.
C1_Witness ==
    /\ built /\ Returned("scale") /\ last.ok /\ last.anchor # 0
    /\ LET a == last.anchor
       IN  /\ nodes[a].parent # 0
           /\ nodes[a].children # <<>>
           /\ Len(nodes[nodes[a].parent].children) >= 2
           /\ nodes[a].quantity # One

RootGood == ProductName(map)

RootRate == Rate(recipes, nodes, map)

\* C2 as claimed: in any state of a built tree, right after build included,
\* scale(root_good, current_root_rate) leaves every quantity unchanged.
C2_RootRoundTripAnyState ==
    [][(pc = "idle" /\ built /\ Scale(RootGood, RootRate)) => nodes' = nodes]_vars

\* C2 as amended: in any state of a built tree in which every non-root node
\* is balanced against its parent (as after any scale call that returned),
\* scale(root_good, current_root_rate) leaves every quantity unchanged.
C2_RootRoundTripConsistent ==
    [][(pc = "idle" /\ pc' = "idle" /\ built /\ Consistent /\ Scale(RootGood, RootRate))
          => nodes' = nodes]_vars

\* C2's case: the root of a scaled tree with children was re-scaled to the
\* rate it already ran at.
C2_Witness ==
    /\ built /\ Returned("scale") /\ last.ok /\ last.reanchor
    /\ last.anchor = map
    /\ nodes[map].children # <<>>
    /\ nodes[map].quantity # One

\* C3: in the tree a scale call that returned has left, scale(g, r) with g
\* the primary product of any node and r the rate the first pre-order node
\* making g runs at leaves every quantity unchanged (exact arithmetic).
C3_ReanchorNoOp ==
    [][(pc = "idle" /\ pc' = "idle" /\ scaled) =>
          \A g \in Goods(recipes) :
              LET node == find_node_by_product(recipes, nodes, map, g)
              IN  (node # 0 /\ Scale(g, Rate(recipes, nodes, node))) => nodes' = nodes]_vars

\* C3's case: a scaled tree was re-anchored at a node other than the root,
\* one with a sibling, at the rate that node already ran at.
C3_Witness ==
    /\ Returned("scale") /\ last.ok /\ last.reanchor
    /\ last.anchor # map
    /\ Len(nodes[nodes[last.anchor].parent].children) >= 2
    /\ nodes[last.anchor].quantity # One

\* C4: in the tree a build call leaves, at most one of the nodes making a
\* given good has children; after a build of unlimited depth a node that has
\* children is the first node in pre-order making its good.
C4_DuplicatePruning ==
    Returned("build") =>
        /\ \A n, m \in DOMAIN nodes :
              (n # m /\ ProductName(n) = ProductName(m))
                  => (nodes[n].children = <<>> \/ nodes[m].children = <<>>)
        /\ call.max_depth < 0 =>
              \A n \in DOMAIN nodes :
                  nodes[n].children # <<>>
                      => find_node_by_product(recipes, nodes, map, ProductName(n)) = n

\* C4's case: an unlimited build has left two nodes making the same good in
\* different branches, the first expanded and the second a leaf.
C4_Witness ==
    /\ Returned("build") /\ call.max_depth < 0
    /\ \E n, m \in DOMAIN nodes :
          /\ n < m
          /\ ProductName(n) = ProductName(m)
          /\ nodes[n].parent # nodes[m].parent
          /\ nodes[n].children # <<>>
          /\ nodes[m].children = <<>>

\* C5: the tree build(max_depth = d) leaves for a finite d >= 0 holds no
\* node deeper than d below the root; with d = 0 the root has no children.
C5_DepthBound ==
    (Returned("build") /\ call.max_depth >= 0) =>
        /\ \A n \in DOMAIN nodes : Depth(nodes, n) <= call.max_depth
        /\ call.max_depth = 0 => nodes[map].children = <<>>

\* C5's case: a build with a finite depth has returned and left, at that
\* depth, a node that it would have expanded but for the depth.
C5_Witness ==
    /\ Returned("build") /\ call.max_depth >= 1
    /\ \E n \in DOMAIN nodes :
          /\ Depth(nodes, n) = call.max_depth
          /\ ProductName(n) \notin Products
          /\ \E k \in DOMAIN recipes[nodes[n].recipe].inputs :
                get_recipes_by_part(recipes, recipes[nodes[n].recipe].inputs[k].name,
                                    "product", call.exclude_machines) # <<>>

\* C6: a build call that repeats the arguments of the build call before it
\* (the same policy, excluded machines, seed set object and depth) leaves a
\* tree with the topology and recipes the first call left.
C6_BuildIdempotent ==
    (Returned("build") /\ before_build # <<>>) => Shape(nodes) = before_build

\* C7: a scale call that raises leaves every quantity as it found it.
C7_ScaleFailureAtomic ==
    [][(pc = "idle" /\ pc' = "idle") =>
          \A g \in Goods(recipes) : \A r \in TargetChoices(g) :
              (Scale(g, r) /\ ~last'.ok) => nodes' = nodes]_vars

InInputs(recipe, part) == \E k \in DOMAIN recipe.inputs : recipe.inputs[k].name = part

InAnyOutput(recipe, part) == \E k \in DOMAIN recipe.outputs : recipe.outputs[k].name = part

IsPrimaryProduct(recipe, part) == recipe.outputs[1].name = part

\* the catalog positions the query made is claimed to return, given which
\* recipes count as producers of the good: those whose machine was not
\* excluded and that are producers (role product or any) or have the good
\* among their inputs (role ingredient or any)
Wanted(producers) ==
    {i \in DOMAIN recipes :
        /\ recipes[i].machine \notin
              (IF results.exclude_machines = <<>> THEN {"Packager"}
               ELSE results.exclude_machines[1])
        /\ \/ results.by \in {"product", "any"} /\ i \in producers
           \/ results.by \in {"ingredient", "any"} /\ InInputs(recipes[i], results.part)}

\* the result lists each position once, in catalog order
InCatalogOrder(found) == \A j, k \in DOMAIN found : j < k => found[j] < found[k]

Range(f) == {f[k] : k \in DOMAIN f}

\* C8 as claimed: the query returns, in catalog order, exactly the recipes
\* whose machine is not excluded and in which the good is, for producer, in
\* any output (primary product or byproduct), for consumer, in the inputs,
\* for either, in one of the two.
C8_AnyOutput ==
    results # <<>> =>
        /\ InCatalogOrder(results.found)
        /\ Range(results.found) =
              Wanted({i \in DOMAIN recipes : InAnyOutput(recipes[i], results.part)})

\* C8 as amended: the same with a producer being a recipe whose primary
\* product (outputs[0]) is the good; a byproduct does not count.
C8_PrimaryProduct ==
    results # <<>> =>
        /\ InCatalogOrder(results.found)
        /\ Range(results.found) =
              Wanted({i \in DOMAIN recipes : IsPrimaryProduct(recipes[i], results.part)})

\* C8's case: a producer query has returned some recipe, left out a recipe
\* for its machine and left out one that makes the good as a byproduct.
C8_Witness ==
    /\ results # <<>> /\ results.by = "product"
    /\ results.found # <<>>
    /\ \E i, j \in DOMAIN recipes \ Range(results.found) :
          /\ IsPrimaryProduct(recipes[i], results.part)
          /\ recipes[i].machine \in DefaultExclude(results.exclude_machines)
          /\ InAnyOutput(recipes[j], results.part)
          /\ recipes[j].machine \notin DefaultExclude(results.exclude_machines)

\* C9: a build call of unlimited depth returns, whatever the catalog, the
\* cyclic one included.
C9_BuildTerminates == (pc = "build" /\ call.max_depth < 0) ~> (pc = "idle")

\* C9's case: an unlimited build over a cyclic recipe graph has returned,
\* having met a good below a node that makes that same good.
C9_Witness ==
    /\ Returned("build") /\ call.max_depth < 0
    /\ \E n \in DOMAIN nodes :
          /\ nodes[n].parent # 0
          /\ nodes[nodes[n].parent].parent # 0
          /\ ProductName(n) = ProductName(nodes[nodes[n].parent].parent)

\* C10: when a build call has returned, every node of the tree, the root
\* included, has quantity 1.0.
C10_PostBuildAllOnes ==
    Returned("build") => \A n \in DOMAIN nodes : nodes[n].quantity = One

====
